---- MODULE Spec2Model ----
(***************************************************************************)
(* Model of metalsmith.js, the build script of metalsmith-blog-starter.    *)
(*                                                                         *)
(* The script registers a fixed chain of plugins on a Metalsmith instance, *)
(* adds two more in production, and calls build() with a callback that     *)
(* rethrows an error, logs the build time and starts or reloads a          *)
(* BrowserSync server when watch mode is on.                               *)
(*                                                                         *)
(* A pass is: clean the build folder, read the sources, apply the plugins  *)
(* one after the other, write the file map, call the callback.  In watch   *)
(* mode a source change starts the next pass and calls the same callback.  *)
(***************************************************************************)
EXTENDS Integers, Sequences, FiniteSets

\* Bounds of the exploration
MaxPasses == 3
MaxTime == 3

\* Values of NODE_ENV the script may be started with ("unset": not defined)
Envs == {"development", "production", "unset"}

\* Content files and what their frontmatter says
Names == {"index", "post"}
Status == {"absent", "page", "draft"}

NoErr == "none"
WriteErr == "write"
Null == 0

VARIABLES
  NODE_ENV,    \* process.env.NODE_ENV
  plugins,     \* metalsmith.plugins: the registered chain
  watch,       \* metalsmith.watch(): the watched paths, {} when false
  devServer,   \* let devServer: Null or the id of the BrowserSync instance
  t1,          \* let t1: the time stamp the logged duration is measured from
  pc,          \* start | running | callback | idle | exited | crashed
  now,         \* performance.now()
  source,      \* the content of ./src: Names -> Status
  files,       \* the file map of the pass: [files, trail]
  idx,         \* position of the next plugin of the pass
  invoked,     \* the plugins invoked in this pass, in order
  err,         \* the error handed to the build callback
  thrown,      \* the error the callback threw
  dest,        \* the content of ./build: items [name, stage, gen]
  prevDest,    \* ./build as the last successful pass left it
  subscribed,  \* the file watcher is subscribed
  passes,      \* number of passes started
  passStart,   \* the time the pass in flight started
  failedAt,    \* index of the plugin that failed in this pass, 0 when none
  created,     \* number of browserSync.create() calls
  reloaded,    \* the instances reload() was called on, in order
  reports      \* the "Build success in N ms" lines: [ms, elapsed]

vars == <<NODE_ENV, plugins, watch, devServer, t1, pc, now, source, files, idx,
          invoked, err, thrown, dest, prevDest, subscribed, passes, passStart,
          failedAt, created, reloaded, reports>>

----------------------------------------------------------------------------
\* Configuration of the Metalsmith instance

\* const isProduction = process.env.NODE_ENV !== 'development'
isProductionLax(env) == env = "production"
isProduction(env) == env # "development"

WatchPaths == {"src", "lib/layouts", "lib/assets"}

\* .watch( isProduction ? false : [ 'src', 'lib/layouts', 'lib/assets' ] )
WatchOption(prod) == IF prod THEN {} ELSE WatchPaths

\* the eight .use() calls of the main chain
BaseChain ==
  <<"drafts", "metadata", "collections", "markdown", "permalinks", "layouts",
    "prism", "assets">>

\* the two .use() calls inside if ( isProduction )
ProductionChain == <<"htmlOptimizer", "sitemap">>

\* the chain as registered once the module is loaded
RegisteredUngated(prod) == BaseChain \o ProductionChain
RegisteredPlugins(prod) ==
  BaseChain \o (IF prod THEN ProductionChain ELSE <<>>)

\* drafts( !isProduction ): the include option of the drafts plugin
DraftsIncludeInverted(prod) == prod
DraftsInclude(prod) == ~prod

\* .clean( true ): the build folder is deleted before each build
CleanKeep(d) == d
Clean(d) == {}

\* .source( './src' ): the file map read at the start of a pass
ReadSource(src) ==
  [files |-> {[name |-> n, draft |-> (src[n] = "draft"), stage |-> "md"] :
                n \in {m \in Names : src[m] # "absent"}},
   trail |-> <<>>]

\* what one plugin does to the file map it receives
Apply(p, fm, prod) ==
  [files |->
     CASE p = "drafts" ->
            {f \in fm.files : DraftsInclude(prod) \/ ~f.draft}
       [] p = "markdown" ->
            {[f EXCEPT !.stage = IF @ = "md" THEN "html" ELSE @] : f \in fm.files}
       [] p = "permalinks" ->
            {[f EXCEPT !.stage = IF @ = "html" THEN "permalink" ELSE @] :
               f \in fm.files}
       [] OTHER -> fm.files,
   trail |-> Append(fm.trail, p)]

\* assets( { source: 'lib/assets/', destination: 'assets/' } ) copies into ./build
AssetsCopy(p, d, gen) ==
  IF p = "assets"
    THEN d \cup {[name |-> "assets", stage |-> "static", gen |-> gen]}
    ELSE d

\* .destination( './build' ): the items a written file map adds to ./build
Written(fs, gen) == {[name |-> f.name, stage |-> f.stage, gen |-> gen] : f \in fs}

----------------------------------------------------------------------------
\* The build callback

\* if ( err ) { throw err; }
ThrowsNever(e) == FALSE
Throws(e) == e # NoErr

\* ( performance.now() - t1 )
LoggedMs(t, start) == t - start

\* if ( metalsmith.watch() )
WatchOn(w) == w # {}

\* if ( devServer )
ServerExistsNever(s) == FALSE
ServerExists(s) == s # Null

----------------------------------------------------------------------------
Init ==
  /\ NODE_ENV \in Envs
  /\ plugins = RegisteredPlugins(isProduction(NODE_ENV))
  /\ watch = WatchOption(isProduction(NODE_ENV))
  /\ devServer = Null
  /\ t1 = 0
  /\ pc = "start"
  /\ now = 0
  /\ source \in [Names -> Status]
  /\ files = [files |-> {}, trail |-> <<>>]
  /\ idx = 0
  /\ invoked = <<>>
  /\ err = NoErr
  /\ thrown = NoErr
  /\ dest = {}
  /\ prevDest = {}
  /\ subscribed = FALSE
  /\ passes = 0
  /\ passStart = 0
  /\ failedAt = 0
  /\ created = 0
  /\ reloaded = <<>>
  /\ reports = <<>>

\* the clock advances while the script loads, a pass runs or the watcher waits
Tick ==
  /\ pc \in {"start", "running", "idle"}
  /\ now < MaxTime
  /\ now' = now + 1
  /\ UNCHANGED <<NODE_ENV, plugins, watch, devServer, t1, pc, source, files, idx,
                 invoked, err, thrown, dest, prevDest, subscribed, passes,
                 passStart, failedAt, created, reloaded, reports>>

\* the start of a pass: clean ./build, read ./src
BeginPass(src) ==
  /\ dest' = Clean(dest)
  /\ files' = ReadSource(src)
  /\ idx' = 1
  /\ invoked' = <<>>
  /\ err' = NoErr
  /\ failedAt' = 0
  /\ passes' = passes + 1
  /\ passStart' = now
  /\ pc' = "running"

\* let t1 = performance.now(); metalsmith.build( callback )
StartBuild ==
  /\ pc = "start"
  /\ t1' = now
  /\ source' = source
  /\ BeginPass(source)
  /\ subscribed' = WatchOn(watch)
  /\ UNCHANGED <<NODE_ENV, plugins, watch, devServer, now, thrown, prevDest,
                 created, reloaded, reports>>

\* the next plugin of the chain runs to its end
PluginSucceeds ==
  /\ pc = "running"
  /\ idx <= Len(plugins)
  /\ files' = Apply(plugins[idx], files, isProduction(NODE_ENV))
  /\ dest' = AssetsCopy(plugins[idx], dest, passes)
  /\ invoked' = Append(invoked, plugins[idx])
  /\ idx' = idx + 1
  /\ UNCHANGED <<NODE_ENV, plugins, watch, devServer, t1, pc, now, source, err,
                 thrown, prevDest, subscribed, passes, passStart, failedAt,
                 created, reloaded, reports>>

\* the next plugin of the chain fails: the pass ends with its error
PluginFails ==
  /\ pc = "running"
  /\ idx <= Len(plugins)
  /\ invoked' = Append(invoked, plugins[idx])
  /\ err' = plugins[idx]
  /\ failedAt' = idx
  /\ pc' = "callback"
  /\ UNCHANGED <<NODE_ENV, plugins, watch, devServer, t1, now, source, files,
                 idx, thrown, dest, prevDest, subscribed, passes, passStart,
                 created, reloaded, reports>>

\* the file map is written to ./build after the last plugin
WriteSucceeds ==
  /\ pc = "running"
  /\ idx > Len(plugins)
  /\ dest' = dest \cup Written(files.files, passes)
  /\ prevDest' = dest'
  /\ pc' = "callback"
  /\ UNCHANGED <<NODE_ENV, plugins, watch, devServer, t1, now, source, files,
                 idx, invoked, err, thrown, subscribed, passes, passStart,
                 failedAt, created, reloaded, reports>>

\* writing ./build fails after some of the files were written
WriteFails ==
  /\ pc = "running"
  /\ idx > Len(plugins)
  /\ \E part \in SUBSET files.files :
       /\ part # files.files \/ files.files = {}
       /\ dest' = dest \cup Written(part, passes)
  /\ err' = WriteErr
  /\ pc' = "callback"
  /\ UNCHANGED <<NODE_ENV, plugins, watch, devServer, t1, now, source, files,
                 idx, invoked, thrown, prevDest, subscribed, passes, passStart,
                 failedAt, created, reloaded, reports>>

\* ( err ) => { ... }: the callback handed to metalsmith.build
Callback ==
  /\ pc = "callback"
  /\ IF Throws(err)
       THEN /\ thrown' = err
            /\ pc' = "crashed"
            /\ UNCHANGED <<devServer, t1, created, reloaded, reports>>
       ELSE /\ reports' = Append(reports, [ms |-> LoggedMs(now, t1),
                                           elapsed |-> now - passStart])
            /\ IF WatchOn(watch)
                 THEN IF ServerExists(devServer)
                        THEN /\ t1' = now
                             /\ reloaded' = Append(reloaded, devServer)
                             /\ UNCHANGED <<devServer, created>>
                        ELSE /\ devServer' = created + 1
                             /\ created' = created + 1
                             /\ UNCHANGED <<t1, reloaded>>
                 ELSE UNCHANGED <<devServer, t1, created, reloaded>>
            /\ pc' = IF subscribed THEN "idle" ELSE "exited"
            /\ UNCHANGED thrown
  /\ UNCHANGED <<NODE_ENV, plugins, watch, now, source, files, idx, invoked, err,
                 dest, prevDest, subscribed, passes, passStart, failedAt>>

\* a watched file changes while the watcher waits: the next pass starts
Change ==
  /\ pc = "idle"
  /\ subscribed
  /\ passes < MaxPasses
  /\ \E n \in Names, s \in Status :
       /\ s # source[n]
       /\ source' = [source EXCEPT ![n] = s]
       /\ BeginPass(source')
  /\ UNCHANGED <<NODE_ENV, plugins, watch, devServer, t1, now, thrown, prevDest,
                 subscribed, created, reloaded, reports>>

Next ==
  \/ Tick
  \/ StartBuild
  \/ PluginSucceeds
  \/ PluginFails
  \/ WriteSucceeds
  \/ WriteFails
  \/ Callback
  \/ Change

Spec == Init /\ [][Next]_vars

----------------------------------------------------------------------------
\* Properties

IsPrefix(s, t) == Len(s) <= Len(t) /\ \A i \in 1..Len(s) : s[i] = t[i]

DevelopmentOrder ==
  <<"drafts", "metadata", "collections", "markdown", "permalinks", "layouts",
    "prism", "assets">>

ProductionOrder ==
  <<"drafts", "metadata", "collections", "markdown", "permalinks", "layouts",
    "prism", "assets", "htmlOptimizer", "sitemap">>

ExpectedOrder ==
  IF NODE_ENV = "development" THEN DevelopmentOrder ELSE ProductionOrder

\* C1: in every pass the plugins are invoked in the registered order, one at
\* a time, each on the file map the previous ones left: drafts, metadata,
\* collections, markdown, permalinks, layouts, prism, assets, then, only in
\* production, htmlOptimizer and sitemap; a pass that succeeds went through
\* the whole chain; in development htmlOptimizer and sitemap never run.
PluginsInRegisteredOrder ==
  /\ IsPrefix(invoked, ExpectedOrder)
  /\ IsPrefix(files.trail, invoked)
  /\ Len(invoked) - Len(files.trail) = IF failedAt # 0 THEN 1 ELSE 0
  /\ pc = "running" => Len(files.trail) = idx - 1
  /\ pc \in {"idle", "exited"} => files.trail = ExpectedOrder
  /\ NODE_ENV = "development" =>
       \A i \in 1..Len(invoked) : invoked[i] \notin {"htmlOptimizer", "sitemap"}

ProductionChainCompleted ==
  /\ NODE_ENV = "production"
  /\ pc = "exited"
  /\ files.trail = ProductionOrder

\* C2: when NODE_ENV is anything but 'development', unset included, the
\* watcher is never subscribed and no dev server exists: watch is false,
\* devServer is null, browserSync.create and reload are never called.
ProductionNeverWatchesOrServes ==
  NODE_ENV # "development" =>
    /\ watch = {}
    /\ ~subscribed
    /\ devServer = Null
    /\ created = 0
    /\ reloaded = <<>>
    /\ pc # "idle"

UnsetEnvBuildFinished ==
  /\ NODE_ENV = "unset"
  /\ pc = "exited"
  /\ Len(reports) = 1

\* C3: in development at most one dev server is ever created, by the callback
\* of the first successful pass, and the callback of every later successful
\* pass calls reload() on that instance.
DevServerCreatedOnce ==
  NODE_ENV = "development" =>
    /\ created = IF Len(reports) > 0 THEN 1 ELSE 0
    /\ devServer = created
    /\ Len(reloaded) = IF Len(reports) > 0 THEN Len(reports) - 1 ELSE 0
    /\ \A i \in 1..Len(reloaded) : reloaded[i] = 1

ReloadedAfterLaterPasses ==
  /\ NODE_ENV = "development"
  /\ Len(reports) >= 3
  /\ created = 1
  /\ Len(reloaded) = Len(reports) - 1

\* C4: in development a failed pass is reported and the watch loop survives:
\* after the callback got an error the process is still watching, so that a
\* later change can start a new pass.
FailedPassKeepsWatching ==
  (NODE_ENV = "development" /\ err # NoErr /\ pc # "callback") =>
    (pc = "idle" /\ subscribed)

\* C5: the callback of a failed pass leaves the dev server as it was: the
\* same devServer, no create, no reload, no 'Build success' line.
FailedPassLeavesDevServer ==
  [][(pc = "callback" /\ err # NoErr) =>
       (/\ devServer' = devServer
        /\ created' = created
        /\ reloaded' = reloaded
        /\ reports' = reports)]_vars

FailedWithServerRunning ==
  /\ pc = "crashed"
  /\ thrown # NoErr
  /\ devServer # Null
  /\ Len(reports) >= 1

FailFast ==
  /\ failedAt # 0 =>
       /\ pc \in {"callback", "crashed"}
       /\ err = plugins[failedAt]
       /\ invoked = SubSeq(plugins, 1, failedAt)
       /\ files.trail = SubSeq(plugins, 1, failedAt - 1)
  /\ err # NoErr => pc \in {"callback", "crashed"}
  /\ pc = "crashed" => (err # NoErr /\ thrown = err)

EarlyPluginErrorThrown ==
  /\ pc = "crashed"
  /\ failedAt \in 1..(Len(plugins) - 1)
  /\ thrown = plugins[failedAt]

\* C9: a pass in production leaves every file with draft: true out of the
\* file map and of ./build; a pass in development keeps the drafts.
DraftNames == {n \in Names : source[n] = "draft"}

InFileMap == {f.name : f \in files.files}

Published == {d.name : d \in dest} \ {"assets"}

DraftsFollowBuildMode ==
  /\ (pc # "start" /\ Len(files.trail) >= 1) =>
       IF NODE_ENV = "development"
         THEN DraftNames \subseteq InFileMap
         ELSE DraftNames \cap InFileMap = {}
  /\ pc \in {"idle", "exited"} =>
       IF NODE_ENV = "development"
         THEN DraftNames \subseteq Published
         ELSE DraftNames \cap Published = {}

DraftPublishedInDevelopment ==
  /\ NODE_ENV = "development"
  /\ pc = "idle"
  /\ DraftNames # {}
  /\ DraftNames \subseteq Published

\* C10: the duration in every 'Build success in N ms' line is the time
\* between the start of that pass and its end.
ReportsOwnDuration ==
  \A i \in 1..Len(reports) : reports[i].ms = reports[i].elapsed

====
